---- MODULE Spec2Model ----
(***************************************************************************)
(* Model of the two batch scripts of LandslideDebrisFlowAreaDetection:     *)
(*   AdjustGray_Uetsu.py  (Adjust: brightness/contrast normalisation)      *)
(*   EnsembleSeg.py       (RunInf: U-Net inference and mask output)        *)
(*                                                                         *)
(* File names are sequences of one-character strings.  An image is a       *)
(* record [ok, h, w, px] with px the row-major sequence of its samples.    *)
(* A Python/NumPy float is a record [nan, v]: v counts units of 1/Scale    *)
(* (fixed point, rounded toward zero) and magnitudes at or above SatMax    *)
(* are held at SatMax, which np.clip maps to the same sample as the exact  *)
(* value.                                                                  *)
(***************************************************************************)
EXTENDS Integers, Sequences, FiniteSets, TLC

VARIABLES
    prog,             \* which entry point runs: "Adjust", "RunInf" or "Call"
    pc,               \* position in the running function
    TrainImgDir,      \* reference directory: file name -> file content
    TestImgDir,       \* test directory: file name -> file content
    ImageExtension,   \* the extension string typed by the user
    Threshold,        \* Adjust's threshold
    OutputDir,        \* output directory: file name -> written image
    TrainMean,        \* Adjust: result of GetImgMeanStd
    TrainStd,
    TestImgPathList,  \* result of glob.glob (sorted in RunInf)
    idx,              \* loop position in TestImgPathList (1-based)
    TestMean,         \* Adjust loop locals
    TestStd,
    TestImgData,
    Clipped,          \* AdjustImage: the float array np.clip returned
    AdjImg,           \* AdjustImage's uint8 result
    Result,           \* DrawBlackBasedThreshold's result
    PredOneHot,       \* ConvertYtoSegImg's argument
    PredImg,          \* ConvertYtoSegImg's result (resized in RunInf)
    LikelihoodList,   \* Evaluation's accumulated predictions
    predicted,        \* history: <<file name, tensor>> per Model.predict call
    writes,           \* history: one record per WriteImg call that stored a file
    events            \* history: the per-file steps, in the order they ran

vars == <<prog, pc, TrainImgDir, TestImgDir, ImageExtension, Threshold,
          OutputDir, TrainMean, TrainStd, TestImgPathList, idx, TestMean,
          TestStd, TestImgData, Clipped, AdjImg, Result, PredOneHot, PredImg,
          LikelihoodList, predicted, writes, events>>

----------------------------------------------------------------------------
(* Bounds of the model *)

\* most files in a directory
MaxFiles == 2
\* fixed-point units per 1.0 of a float
Scale == 10
\* magnitude at which the fixed-point floats saturate
SatMax == 1000000000
\* class count of the network's output
NumClasses == 2

\* 1 / 1e-8, the guard added to the divisor in AdjustImage
EpsInv == 100000000

----------------------------------------------------------------------------
(* Generic helpers *)

Abs(x) == IF x < 0 THEN -x ELSE x
Sign(x) == IF x < 0 THEN -1 ELSE IF x > 0 THEN 1 ELSE 0

\* integer division rounding toward zero
TDiv(a, b) == Sign(a) * Sign(b) * (Abs(a) \div Abs(b))

RECURSIVE SumSeq(_)
SumSeq(s) == IF s = <<>> THEN 0 ELSE Head(s) + SumSeq(Tail(s))

\* bisection: lo * lo <= x < hi * hi
RECURSIVE ISqrtBetween(_, _, _)
ISqrtBetween(x, lo, hi) ==
    IF hi - lo <= 1 THEN lo
    ELSE LET mid == (lo + hi) \div 2
         IN  IF mid * mid <= x THEN ISqrtBetween(x, mid, hi)
             ELSE ISqrtBetween(x, lo, mid)
\* floor of the square root of x, 0 <= x < 2^30
ISqrt(x) == ISqrtBetween(x, 0, 32768)

Range(s) == {s[i] : i \in 1..Len(s)}

\* all sequences without repetition that enumerate the set S
Perms(S) == {s \in [1..Cardinality(S) -> S] : \A i, j \in 1..Cardinality(S) : s[i] = s[j] => i = j}

----------------------------------------------------------------------------
(* Floats *)

Fl(v) == [nan |-> FALSE, v |-> v]
NaN == [nan |-> TRUE, v |-> 0]

SatMul(a, b) ==
    IF a = 0 \/ b = 0 THEN 0
    ELSE IF Abs(a) > SatMax \div Abs(b) THEN Sign(a) * Sign(b) * SatMax
    ELSE a * b

Sat(v) == IF v > SatMax THEN SatMax ELSE IF v < -SatMax THEN -SatMax ELSE v

FSub(a, b) == IF a.nan \/ b.nan THEN NaN ELSE Fl(Sat(a.v - b.v))
FAdd(a, b) == IF a.nan \/ b.nan THEN NaN ELSE Fl(Sat(a.v + b.v))
FMul(a, b) == IF a.nan \/ b.nan THEN NaN ELSE Fl(TDiv(SatMul(a.v, b.v), Scale))

\* a / (b + 1e-8) without the 1e-8: a zero divisor gives NaN for 0/0
FDivNoEps(a, b) ==
    IF a.nan \/ b.nan THEN NaN
    ELSE IF b.v = 0 THEN (IF a.v = 0 THEN NaN ELSE Fl(Sign(a.v) * SatMax))
    ELSE Fl(TDiv(SatMul(a.v, Scale), b.v))

\* a / (b + 1e-8): 1e-8 is below one unit, so it only counts when b is 0
FDivEps(a, b) ==
    IF a.nan \/ b.nan THEN NaN
    ELSE IF b.v = 0 THEN Fl(SatMul(a.v, EpsInv))
    ELSE Fl(TDiv(SatMul(a.v, Scale), b.v))

\* np.clip(x, 0, 255) left out
ClipNone(x) == x

\* np.clip(x, 0, 255); NaN stays NaN
Clip(x) ==
    IF x.nan THEN NaN
    ELSE IF x.v < 0 THEN Fl(0)
    ELSE IF x.v > 255 * Scale THEN Fl(255 * Scale)
    ELSE x

\* np.mean of a list of floats; the empty list gives NaN (a warning, no raise)
NpMean(list) ==
    IF Len(list) = 0 THEN NaN
    ELSE IF \E i \in 1..Len(list) : list[i].nan THEN NaN
    ELSE Fl(TDiv(SumSeq([i \in 1..Len(list) |-> list[i].v]), Len(list)))

\* the uint8 samples astype(np.uint8) can give for one float: truncation
\* for a value in range and the low byte for one out of range; for NaN the
\* conversion is undefined: 0 on the usual builds, 255 standing for any
\* other sample
CastUint8(x) ==
    IF x.nan THEN {0, 255}
    ELSE {(TDiv(x.v, Scale)) % 256}

----------------------------------------------------------------------------
(* File names and paths *)

NamePng    == <<"a", ".", "p", "n", "g">>
NameDotted == <<"a", ".", "b", ".", "p", "n", "g">>
NameApng   == <<"a", ".", "a", "p", "n", "g">>
NameBmp    == <<"a", ".", "b", "m", "p">>
FileNames  == {NamePng, NameDotted, NameApng, NameBmp}

ExtDotPng == <<".", "p", "n", "g">>
ExtPng    == <<"p", "n", "g">>
ExtDotBmp == <<".", "b", "m", "p">>
Extensions == {ExtDotPng, ExtPng, ExtDotBmp}

SuffixPng == <<".", "p", "n", "g">>
SuffixSeg == <<"_", "S", "e", "g", ".", "j", "p", "g">>

\* code point of a character
Ord(c) ==
    CASE c = "." -> 46  [] c = "S" -> 83  [] c = "_" -> 95  [] c = "a" -> 97
      [] c = "b" -> 98  [] c = "e" -> 101 [] c = "g" -> 103 [] c = "j" -> 106
      [] c = "m" -> 109 [] c = "n" -> 110 [] c = "p" -> 112

\* Python's str < str
RECURSIVE StrLess(_, _)
StrLess(a, b) ==
    IF b = <<>> THEN FALSE
    ELSE IF a = <<>> THEN TRUE
    ELSE IF Ord(Head(a)) # Ord(Head(b)) THEN Ord(Head(a)) < Ord(Head(b))
    ELSE StrLess(Tail(a), Tail(b))

EndsWith(name, suffix) ==
    /\ Len(suffix) <= Len(name)
    /\ SubSeq(name, Len(name) - Len(suffix) + 1, Len(name)) = suffix

\* fnmatch of a name against '*' + ext: any name ending with ext, except
\* the names that start with a dot, which '*' never matches
GlobMatch(name, ext) == EndsWith(name, ext) /\ name # <<>> /\ name[1] # "."

\* the names glob.glob(os.path.join(dir, '*' + ext)) lists
Glob(dir, ext) == {n \in DOMAIN dir : GlobMatch(n, ext)}

Path(d, n) == [dir |-> d, name |-> n]
\* os.path.basename
Basename(p) == p.name

\* str.rfind('.'): 1-based position of the last dot, 0 when there is none
RECURSIVE RFindDot(_, _)
RFindDot(name, i) ==
    IF i = 0 THEN 0 ELSE IF name[i] = "." THEN i ELSE RFindDot(name, i - 1)

\* str.find('.'): position of the first dot after position 1
RECURSIVE FindDot(_, _)
FindDot(name, i) ==
    IF i > Len(name) THEN 0 ELSE IF name[i] = "." THEN i ELSE FindDot(name, i + 1)

\* splitting at the first dot instead of the last
SplitextFirstDot(name) ==
    LET d == FindDot(name, 2)
    IN  IF d = 0 THEN <<name, <<>> >>
        ELSE <<SubSeq(name, 1, d - 1), SubSeq(name, d, Len(name))>>

\* os.path.splitext of a name without separators: split at the last dot,
\* unless only dots precede it
Splitext(name) ==
    LET d == RFindDot(name, Len(name))
    IN  IF d > 0 /\ \E k \in 1..(d - 1) : name[k] # "."
        THEN <<SubSeq(name, 1, d - 1), SubSeq(name, d, Len(name))>>
        ELSE <<name, <<>> >>

\* list.sort() left out
SortNone(list) == list

RECURSIVE InsertSorted(_, _)
InsertSorted(x, s) ==
    IF s = <<>> THEN <<x>>
    ELSE IF StrLess(Basename(x), Basename(Head(s))) THEN <<x>> \o s
    ELSE <<Head(s)>> \o InsertSorted(x, Tail(s))

RECURSIVE SortFrom(_, _)
SortFrom(list, acc) ==
    IF list = <<>> THEN acc ELSE SortFrom(Tail(list), InsertSorted(Head(list), acc))

\* list.sort() on the listed paths: one directory, so ordered by file name
SortPaths(list) == SortFrom(list, <<>>)

----------------------------------------------------------------------------
(* Images and the functions on them *)

Img(h, w, px) == [ok |-> TRUE, h |-> h, w |-> w, px |-> px]
\* what cv2.imdecode returns for bytes that are no image (None), and the
\* value of an image variable not yet assigned
NoImg == [ok |-> FALSE, h |-> 0, w |-> 0, px |-> <<>>]

Uniform(h, w, v) == Img(h, w, [i \in 1..(h * w) |-> v])

\* cv2.meanStdDev: population mean and standard deviation of the samples
ImgMean(img) == Fl(TDiv(SumSeq(img.px) * Scale, Len(img.px)))
ImgStd(img) ==
    LET n     == Len(img.px)
        sum   == SumSeq(img.px)
        sumsq == SumSeq([i \in 1..n |-> img.px[i] * img.px[i]])
    IN  Fl(TDiv(ISqrt(Scale * Scale * (n * sumsq - sum * sum)), n))

\* lines 101-103, per sample: astype(float32), the affine map with the
\* 1e-8 guard, np.clip
AdjustSample(x, tMean, tStd, trMean, trStd) ==
    Clip(FAdd(FMul(FDivEps(FSub(Fl(x * Scale), tMean), tStd), trStd), trMean))

\* the float array handed to astype(np.uint8)
AdjustClipped(img, tMean, tStd, trMean, trStd) ==
    [i \in 1..Len(img.px) |-> AdjustSample(img.px[i], tMean, tStd, trMean, trStd)]

\* the sequences whose i-th element is drawn from the i-th set
RECURSIVE Choices(_)
Choices(sets) ==
    IF sets = <<>> THEN {<<>>}
    ELSE {<<x>> \o rest : x \in Head(sets), rest \in Choices(Tail(sets))}

\* the uint8 images astype(np.uint8) can give for a float array
CastImages(img, floats) ==
    {Img(img.h, img.w, px) :
        px \in Choices([i \in 1..Len(floats) |-> CastUint8(floats[i])])}

\* Result[Result <= Threshold] = 0
DrawBlackAtOrBelow(ImgData, t) ==
    [ImgData EXCEPT !.px = [i \in 1..Len(ImgData.px) |->
                                IF ImgData.px[i] <= t THEN 0 ELSE ImgData.px[i]]]

\* Result = ImgData.copy(); Result[Result < Threshold] = 0
DrawBlackBasedThreshold(ImgData, t) ==
    [ImgData EXCEPT !.px = [i \in 1..Len(ImgData.px) |->
                                IF ImgData.px[i] < t THEN 0 ELSE ImgData.px[i]]]

\* the fixed network input size of OnRun, on a grid small enough to enumerate
ImgSize == <<1, 2, 3>>

Black == <<0, 0, 0>>
White == <<255, 255, 255>>

\* an argmax that keeps the last of equal maxima
RECURSIVE ArgMaxLastFrom(_, _, _)
ArgMaxLastFrom(v, k, best) ==
    IF k > Len(v) THEN best - 1
    ELSE ArgMaxLastFrom(v, k + 1, IF v[k] >= v[best] THEN k ELSE best)
ArgMaxLast(v) == ArgMaxLastFrom(v, 2, 1)

RECURSIVE ArgMaxFrom(_, _, _)
ArgMaxFrom(v, k, best) ==
    IF k > Len(v) THEN best - 1
    ELSE ArgMaxFrom(v, k + 1, IF v[k] > v[best] THEN k ELSE best)
\* tf.argmax over the class axis: the 0-based index of the first maximum
ArgMax(v) == ArgMaxFrom(v, 2, 1)

\* lines 89-96: white canvas of shape size, black where the argmax is 1
ConvertYtoSegImg(pred, size) ==
    Img(size[1], size[2],
        [i \in 1..(size[1] * size[2]) |->
            IF ArgMax(pred.px[i]) = 1 THEN [c \in 1..size[3] |-> 0]
            ELSE [c \in 1..size[3] |-> 255]])

\* cv2.resize(img, (w, h), interpolation=cv2.INTER_NEAREST)
Resize(img, w, h) ==
    Img(h, w, [i \in 1..(h * w) |->
        LET y  == (i - 1) \div w
            x  == (i - 1) % w
            sy == (y * img.h) \div h
            sx == (x * img.w) \div w
        IN  img.px[sy * img.w + sx + 1]])

----------------------------------------------------------------------------
(* Inputs *)

Corrupt == NoImg
U50  == Uniform(2, 2, 50)
U100 == Uniform(2, 2, 100)
U200 == Uniform(2, 2, 200)
U201 == Uniform(2, 2, 201)
U255 == Uniform(1, 1, 255)
Grey == Img(1, 2, <<100, 200>>)

TrainNames    == {NamePng, NameDotted}
TrainContents == {U100, U200, U201, Corrupt}
TestContents  == {U50, U255, Grey, Corrupt}
Thresholds    == {0, 128}

\* the directories holding at most max of the names, each with some content
Dirs(names, contents, max) ==
    UNION {[S -> contents] : S \in {T \in SUBSET names : Cardinality(T) <= max}}

\* arguments of the direct calls of AdjustImage, DrawBlackBasedThreshold and
\* ConvertYtoSegImg
CallSamples == {0, 50, 255}
CallImages ==
    {Img(1, 1, px) : px \in [1..1 -> CallSamples]} \cup
    {Img(1, 2, px) : px \in [1..2 -> CallSamples]}
CallMeans      == {Fl(0), Fl(50 * Scale), Fl((255 * Scale) \div 2), Fl(255 * Scale)}
CallStds       == {Fl(0), Fl(Scale \div 2), Fl(50 * Scale)}
CallTargets    == {Fl(-100 * Scale), Fl(0), Fl(150 * Scale), Fl(400 * Scale)}
CallTargetStds == {Fl(-1 * Scale), Fl(0), Fl(Scale), Fl(100 * Scale)}
CallThresholds == {-1, 0, 1, 50, 128, 255, 256}

ProbVals == {0, 1, 2}
\* the class-score tensors of shape ImgSize[1] x ImgSize[2] x NumClasses
Tensors ==
    {Img(ImgSize[1], ImgSize[2], px) :
        px \in [1..(ImgSize[1] * ImgSize[2]) -> [1..NumClasses -> ProbVals]]}
\* what Model.predict returns in the runs of RunInf: one class at 1 per pixel
ModelOutputs ==
    {t \in Tensors : \A i \in 1..Len(t.px) :
        /\ \A k \in 1..NumClasses : t.px[i][k] \in {0, 1}
        /\ SumSeq(t.px[i]) = 1}

NoDir == [n \in {} |-> NoImg]

----------------------------------------------------------------------------
(* Initial states *)

Idle ==
    /\ TrainMean = Fl(0) /\ TrainStd = Fl(0)
    /\ TestImgPathList = <<>> /\ idx = 1
    /\ TestMean = Fl(0) /\ TestStd = Fl(0) /\ TestImgData = NoImg
    /\ Clipped = <<>> /\ AdjImg = NoImg /\ Result = NoImg
    /\ PredOneHot = NoImg /\ PredImg = NoImg
    /\ LikelihoodList = <<>> /\ predicted = <<>>
    /\ OutputDir = NoDir /\ writes = <<>> /\ events = <<>>

\* OnRun of AdjustGray_Uetsu.py calls Adjust with the five entries
InitAdjust ==
    /\ prog = "Adjust" /\ pc = "GetImgMeanStd"
    /\ TrainImgDir \in Dirs(TrainNames, TrainContents, MaxFiles)
    /\ TestImgDir \in Dirs(FileNames, TestContents, MaxFiles)
    /\ ImageExtension \in Extensions
    /\ Threshold \in Thresholds
    /\ Idle

\* OnRun of EnsembleSeg.py calls RunInf with the four entries and ImgSize
InitRunInf ==
    /\ prog = "RunInf" /\ pc = "glob"
    /\ TrainImgDir = NoDir
    /\ TestImgDir \in Dirs(FileNames, TestContents, MaxFiles)
    /\ ImageExtension \in Extensions
    /\ Threshold = 0
    /\ Idle

Init == InitAdjust \/ InitRunInf

\* a direct call of one of the three pure functions with arbitrary arguments
InitCall ==
    /\ prog = "Call"
    /\ TrainImgDir = NoDir /\ TestImgDir = NoDir /\ ImageExtension = ExtDotPng
    /\ TestImgPathList = <<>> /\ idx = 1
    /\ Clipped = <<>> /\ Result = NoImg /\ PredImg = NoImg
    /\ LikelihoodList = <<>> /\ predicted = <<>>
    /\ OutputDir = NoDir /\ writes = <<>> /\ events = <<>>
    /\ \/ /\ pc = "AdjustImage"
          /\ TestImgData \in CallImages
          /\ TestMean \in CallMeans /\ TestStd \in CallStds
          /\ TrainMean \in CallTargets /\ TrainStd \in CallTargetStds
          /\ AdjImg = NoImg /\ Threshold = 0 /\ PredOneHot = NoImg
       \/ /\ pc = "DrawBlackBasedThreshold"
          /\ AdjImg \in CallImages /\ Threshold \in CallThresholds
          /\ TestImgData = NoImg /\ TestMean = Fl(0) /\ TestStd = Fl(0)
          /\ TrainMean = Fl(0) /\ TrainStd = Fl(0) /\ PredOneHot = NoImg
       \/ /\ pc = "ConvertYtoSegImg"
          /\ PredOneHot \in Tensors
          /\ AdjImg = NoImg /\ Threshold = 0
          /\ TestImgData = NoImg /\ TestMean = Fl(0) /\ TestStd = Fl(0)
          /\ TrainMean = Fl(0) /\ TrainStd = Fl(0)

----------------------------------------------------------------------------
(* AdjustGray_Uetsu.py *)

Event(op) == [op |-> op, pos |-> idx]

\* the directory with the file name holding img, replacing what was there
Put(dir, name, img) ==
    [n \in DOMAIN dir \cup {name} |-> IF n = name THEN img ELSE dir[n]]

\* some enumeration of a set of names
Listing(S) == CHOOSE s \in Perms(S) : TRUE

\* GetImgMeanStd(TrainImgDir, ImageExtension), line 134: CalcMeanStd raises
\* on a file cv2 cannot decode; np.mean of the two lists otherwise
GetImgMeanStd ==
    /\ prog = "Adjust" /\ pc = "GetImgMeanStd"
    /\ LET list == Listing(Glob(TrainImgDir, ImageExtension))
       IN  IF \E i \in 1..Len(list) : ~TrainImgDir[list[i]].ok
           THEN /\ pc' = "error"
                /\ UNCHANGED <<TrainMean, TrainStd>>
           ELSE /\ TrainMean' = NpMean([i \in 1..Len(list) |-> ImgMean(TrainImgDir[list[i]])])
                /\ TrainStd' = NpMean([i \in 1..Len(list) |-> ImgStd(TrainImgDir[list[i]])])
                /\ pc' = "glob"
    /\ UNCHANGED <<prog, TrainImgDir, TestImgDir, ImageExtension, Threshold,
                   OutputDir, TestImgPathList, idx, TestMean, TestStd,
                   TestImgData, Clipped, AdjImg, Result, PredOneHot, PredImg,
                   LikelihoodList, predicted, writes, events>>

\* line 137: glob.glob lists the matching files in the order the file
\* system gives them
AdjustGlob ==
    /\ prog = "Adjust" /\ pc = "glob"
    /\ \E order \in Perms(Glob(TestImgDir, ImageExtension)) :
         /\ TestImgPathList' = [i \in 1..Len(order) |-> Path("TestImgDir", order[i])]
         /\ pc' = IF Len(order) = 0 THEN "done" ELSE "CalcMeanStd"
    /\ idx' = 1
    /\ UNCHANGED <<prog, TrainImgDir, TestImgDir, ImageExtension, Threshold,
                   OutputDir, TrainMean, TrainStd, TestMean, TestStd,
                   TestImgData, Clipped, AdjImg, Result, PredOneHot, PredImg,
                   LikelihoodList, predicted, writes, events>>

\* line 140 with the failure of a file swallowed: the loop goes on to the
\* next file instead of raising
CalcMeanStdSkips ==
    /\ prog = "Adjust" /\ pc = "CalcMeanStd"
    /\ LET ImgData == TestImgDir[Basename(TestImgPathList[idx])]
       IN  IF ~ImgData.ok
           THEN /\ pc' = IF idx = Len(TestImgPathList) THEN "done" ELSE "CalcMeanStd"
                /\ idx' = idx + 1
                /\ UNCHANGED <<TestMean, TestStd, TestImgData>>
           ELSE /\ TestMean' = ImgMean(ImgData)
                /\ TestStd' = ImgStd(ImgData)
                /\ TestImgData' = ImgData
                /\ pc' = "AdjustImage"
                /\ idx' = idx
    /\ events' = Append(events, Event("CalcMeanStd"))
    /\ UNCHANGED <<prog, TrainImgDir, TestImgDir, ImageExtension, Threshold,
                   OutputDir, TrainMean, TrainStd, TestImgPathList,
                   Clipped, AdjImg, Result, PredOneHot, PredImg,
                   LikelihoodList, predicted, writes>>

\* line 140: CalcMeanStd(TestImgPath); cv2.meanStdDev raises on None
CalcMeanStd ==
    /\ prog = "Adjust" /\ pc = "CalcMeanStd"
    /\ LET ImgData == TestImgDir[Basename(TestImgPathList[idx])]
       IN  IF ~ImgData.ok
           THEN /\ pc' = "error"
                /\ UNCHANGED <<TestMean, TestStd, TestImgData>>
           ELSE /\ TestMean' = ImgMean(ImgData)
                /\ TestStd' = ImgStd(ImgData)
                /\ TestImgData' = ImgData
                /\ pc' = "AdjustImage"
    /\ events' = Append(events, Event("CalcMeanStd"))
    /\ UNCHANGED <<prog, TrainImgDir, TestImgDir, ImageExtension, Threshold,
                   OutputDir, TrainMean, TrainStd, TestImgPathList, idx,
                   Clipped, AdjImg, Result, PredOneHot, PredImg,
                   LikelihoodList, predicted, writes>>

\* line 141 (lines 101-105): AdjustImage
AdjustImage ==
    /\ prog \in {"Adjust", "Call"} /\ pc = "AdjustImage"
    /\ Clipped' = AdjustClipped(TestImgData, TestMean, TestStd, TrainMean, TrainStd)
    /\ AdjImg' \in CastImages(TestImgData, Clipped')
    /\ pc' = IF prog = "Call" THEN "returned" ELSE "DrawBlackBasedThreshold"
    /\ events' = IF prog = "Call" THEN events ELSE Append(events, Event("AdjustImage"))
    /\ UNCHANGED <<prog, TrainImgDir, TestImgDir, ImageExtension, Threshold,
                   OutputDir, TrainMean, TrainStd, TestImgPathList, idx,
                   TestMean, TestStd, TestImgData, Result, PredOneHot, PredImg,
                   LikelihoodList, predicted, writes>>

\* line 142 (lines 118-121): DrawBlackBasedThreshold works on a copy
DrawBlack ==
    /\ prog \in {"Adjust", "Call"} /\ pc = "DrawBlackBasedThreshold"
    /\ Result' = DrawBlackBasedThreshold(AdjImg, Threshold)
    /\ pc' = IF prog = "Call" THEN "returned" ELSE "WriteImg"
    /\ events' = IF prog = "Call" THEN events
                 ELSE Append(events, Event("DrawBlackBasedThreshold"))
    /\ UNCHANGED <<prog, TrainImgDir, TestImgDir, ImageExtension, Threshold,
                   OutputDir, TrainMean, TrainStd, TestImgPathList, idx,
                   TestMean, TestStd, TestImgData, Clipped, AdjImg, PredOneHot,
                   PredImg, LikelihoodList, predicted, writes>>

\* lines 144-145
AdjustOutputPath(TestImgPath) ==
    Path("OutputDir", Splitext(Basename(TestImgPath))[1] \o SuffixPng)

\* the state after WriteImg(OutputPath, ImgData) stored the file and the
\* loop moved on
Written(OutputPath, ImgData) ==
    /\ OutputDir' = Put(OutputDir, OutputPath.name, ImgData)
    /\ writes' = Append(writes, [src |-> TestImgPathList[idx], pos |-> idx,
                                  path |-> OutputPath, img |-> ImgData])
    /\ events' = Append(events, Event("WriteImg"))
    /\ idx' = idx + 1
    /\ pc' = IF idx = Len(TestImgPathList) THEN "done"
             ELSE IF prog = "Adjust" THEN "CalcMeanStd" ELSE "ReadImg"

\* lines 144-146: the output path, and WriteImg
AdjustWrite ==
    /\ prog = "Adjust" /\ pc = "WriteImg"
    /\ Written(AdjustOutputPath(TestImgPathList[idx]), Result)
    /\ UNCHANGED <<prog, TrainImgDir, TestImgDir, ImageExtension, Threshold,
                   TrainMean, TrainStd, TestImgPathList, TestMean, TestStd,
                   TestImgData, Clipped, AdjImg, Result, PredOneHot, PredImg,
                   LikelihoodList, predicted>>

\* lines 42-44: cv2.imencode or open(Path, 'wb') raises, nothing is stored
WriteImgRaises ==
    /\ prog \in {"Adjust", "RunInf"} /\ pc = "WriteImg"
    /\ pc' = "error"
    /\ events' = Append(events, Event("WriteImgRaises"))
    /\ UNCHANGED <<prog, TrainImgDir, TestImgDir, ImageExtension, Threshold,
                   OutputDir, TrainMean, TrainStd, TestImgPathList, idx,
                   TestMean, TestStd, TestImgData, Clipped, AdjImg, Result,
                   PredOneHot, PredImg, LikelihoodList, predicted, writes>>

----------------------------------------------------------------------------
(* EnsembleSeg.py *)

\* lines 109-110: glob.glob, then list.sort()
RunInfGlob ==
    /\ prog = "RunInf" /\ pc = "glob"
    /\ \E order \in Perms(Glob(TestImgDir, ImageExtension)) :
         /\ TestImgPathList' =
                SortPaths([i \in 1..Len(order) |-> Path("TestImgDir", order[i])])
         /\ pc' = IF Len(order) = 0 THEN "done" ELSE "Evaluation"
    /\ idx' = 1
    /\ UNCHANGED <<prog, TrainImgDir, TestImgDir, ImageExtension, Threshold,
                   OutputDir, TrainMean, TrainStd, TestMean, TestStd,
                   TestImgData, Clipped, AdjImg, Result, PredOneHot, PredImg,
                   LikelihoodList, predicted, writes, events>>

\* lines 66-76, one pass of Evaluation's loop: ReadImg, cv2.resize (which
\* raises on None), Model.predict, append; after the last file Evaluation
\* returns and the loop of line 114 starts
Evaluation ==
    /\ prog = "RunInf" /\ pc = "Evaluation"
    /\ LET TestXPath == TestImgPathList[idx]
           ImgData   == TestImgDir[Basename(TestXPath)]
       IN  IF ~ImgData.ok
           THEN /\ pc' = "error"
                /\ UNCHANGED <<LikelihoodList, predicted, idx>>
           ELSE /\ \E Pred \in ModelOutputs :
                     /\ LikelihoodList' = Append(LikelihoodList, Pred)
                     /\ predicted' = Append(predicted, <<TestXPath, Pred>>)
                /\ idx' = IF idx = Len(TestImgPathList) THEN 1 ELSE idx + 1
                /\ pc' = IF idx = Len(TestImgPathList) THEN "ReadImg" ELSE "Evaluation"
    /\ events' = Append(events, Event("Evaluation"))
    /\ UNCHANGED <<prog, TrainImgDir, TestImgDir, ImageExtension, Threshold,
                   OutputDir, TrainMean, TrainStd, TestImgPathList, TestMean,
                   TestStd, TestImgData, Clipped, AdjImg, Result, PredOneHot,
                   PredImg, writes>>

\* lines 114-116: zip pairs the path and the prediction at the same
\* position; ReadImg decodes the file again
RunInfRead ==
    /\ prog = "RunInf" /\ pc = "ReadImg"
    /\ TestImgData' = TestImgDir[Basename(TestImgPathList[idx])]
    /\ PredOneHot' = LikelihoodList[idx]
    /\ pc' = "ConvertYtoSegImg"
    /\ events' = Append(events, Event("ReadImg"))
    /\ UNCHANGED <<prog, TrainImgDir, TestImgDir, ImageExtension, Threshold,
                   OutputDir, TrainMean, TrainStd, TestImgPathList, idx,
                   TestMean, TestStd, Clipped, AdjImg, Result, PredImg,
                   LikelihoodList, predicted, writes>>

\* line 117 (lines 89-96): ConvertYtoSegImg
Convert ==
    /\ prog \in {"RunInf", "Call"} /\ pc = "ConvertYtoSegImg"
    /\ PredImg' = ConvertYtoSegImg(PredOneHot, ImgSize)
    /\ pc' = IF prog = "Call" THEN "returned" ELSE "WriteImg"
    /\ events' = IF prog = "Call" THEN events
                 ELSE Append(events, Event("ConvertYtoSegImg"))
    /\ UNCHANGED <<prog, TrainImgDir, TestImgDir, ImageExtension, Threshold,
                   OutputDir, TrainMean, TrainStd, TestImgPathList, idx,
                   TestMean, TestStd, TestImgData, Clipped, AdjImg, Result,
                   PredOneHot, LikelihoodList, predicted, writes>>

\* lines 120-121
RunInfOutputPath(TestXPath) ==
    Path("OutputDir", Splitext(Basename(TestXPath))[1] \o SuffixSeg)

\* line 118: the mask at the size of the image read at line 116
ResizeToOriginal(mask, ImgData) == Resize(mask, ImgData.w, ImgData.h)

\* lines 118-122: resize to the original shape, the output path, WriteImg
\* (the array handed to WriteImg is what the history records)
RunInfWrite ==
    /\ prog = "RunInf" /\ pc = "WriteImg" /\ TestImgData.ok
    /\ PredImg' = ResizeToOriginal(PredImg, TestImgData)
    /\ Written(RunInfOutputPath(TestImgPathList[idx]), PredImg')
    /\ UNCHANGED <<prog, TrainImgDir, TestImgDir, ImageExtension, Threshold,
                   TrainMean, TrainStd, TestImgPathList, TestMean, TestStd,
                   TestImgData, Clipped, AdjImg, Result, PredOneHot,
                   LikelihoodList, predicted>>

----------------------------------------------------------------------------
(* Specifications *)

Next ==
    \/ GetImgMeanStd
    \/ AdjustGlob
    \/ CalcMeanStd
    \/ AdjustImage
    \/ DrawBlack
    \/ AdjustWrite
    \/ WriteImgRaises
    \/ RunInfGlob
    \/ Evaluation
    \/ RunInfRead
    \/ Convert
    \/ RunInfWrite

\* the two scripts, each run once on some directories
Spec == Init /\ [][Next]_vars

NextCall == AdjustImage \/ DrawBlack \/ Convert

\* the three pure functions, each called once on some arguments
SpecCall == InitCall /\ [][NextCall]_vars

----------------------------------------------------------------------------
(* Properties *)

IsUniform(img) == img.ok /\ \A i \in 1..Len(img.px) : img.px[i] = img.px[1]

\* the reference files the extension matches
TrainMatches == Glob(TrainImgDir, ImageExtension)

\* C1: GetImgMeanStd over a directory in which no file name ends with the
\* extension raises instead of returning a NaN mean or standard deviation,
\* so Adjust ends in that error and normalises no test image.
C1_EmptyCorpusRaises ==
    (prog = "Adjust" /\ TrainMatches = {} /\ pc # "GetImgMeanStd")
        => /\ pc = "error"
           /\ ~TrainMean.nan /\ ~TrainStd.nan
           /\ events = <<>> /\ writes = <<>>

C3_SuppressBelow ==
    [][pc = "DrawBlackBasedThreshold" =>
        /\ AdjImg' = AdjImg
        /\ Result'.ok /\ Result'.h = AdjImg.h /\ Result'.w = AdjImg.w
        /\ Len(Result'.px) = Len(AdjImg.px)
        /\ \A i \in 1..Len(AdjImg.px) :
             /\ AdjImg.px[i] < Threshold => Result'.px[i] = 0
             /\ AdjImg.px[i] >= Threshold => Result'.px[i] = AdjImg.px[i]
             /\ Result'.px[i] \in {0, AdjImg.px[i]}
        /\ Threshold = 0 => Result' = AdjImg]_vars

\* DrawBlackBasedThreshold returned with one sample suppressed and one,
\* equal to the threshold, kept
C3_Witness ==
    /\ prog = "Call" /\ pc = "returned" /\ Result.ok
    /\ \E i, j \in 1..Len(Result.px) :
         /\ AdjImg.px[i] > 0 /\ Result.px[i] = 0
         /\ AdjImg.px[j] = Threshold /\ Threshold > 0 /\ Result.px[j] = Threshold

\* class 1 is the argmax of the scores v with ties going to the lowest
\* class index: above class 0 and not below any later class
ClassOneSelected(v) == v[2] > v[1] /\ \A k \in 3..Len(v) : v[2] >= v[k]

\* C4: every pixel of ConvertYtoSegImg's mask is (0,0,0) or (255,255,255),
\* and it is (0,0,0) exactly when class 1 is the pixel's argmax with ties
\* resolved to the lowest index.
C4_MaskTwoColours ==
    (prog = "Call" /\ pc = "returned" /\ PredImg.ok)
        => /\ Len(PredImg.px) = Len(PredOneHot.px)
           /\ \A i \in 1..Len(PredImg.px) :
                /\ PredImg.px[i] \in {Black, White}
                /\ PredImg.px[i] = Black <=> ClassOneSelected(PredOneHot.px[i])

\* a decoded mask with a white pixel from a tie of class 0 and class 1 and
\* a black pixel
C4_Witness ==
    /\ prog = "Call" /\ pc = "returned" /\ PredImg.ok
    /\ \E i, j \in 1..Len(PredImg.px) :
         /\ PredOneHot.px[i][1] = PredOneHot.px[i][2] /\ PredImg.px[i] = White
         /\ PredImg.px[j] = Black

NoDotIn(str) == \A k \in 1..Len(str) : str[k] # "."

\* base is name with its last extension removed: what follows base in name
\* is empty (name has no dot) or a dot followed by dot-free characters
IsNameWithoutLastExt(base, name) ==
    /\ Len(base) <= Len(name) /\ Len(base) >= 1
    /\ SubSeq(name, 1, Len(base)) = base
    /\ LET ext == SubSeq(name, Len(base) + 1, Len(name))
       IN  IF ext = <<>> THEN NoDotIn(name)
           ELSE ext[1] = "." /\ NoDotIn(Tail(ext))

\* C5: every output file is placed in the output directory under the
\* input's name without its last extension, followed by '.png' in Adjust
\* and by '_Seg.jpg' in RunInf.
C5_OutputNames ==
    \A i \in 1..Len(writes) :
        LET out    == writes[i].path
            name   == writes[i].src.name
            suffix == IF prog = "Adjust" THEN <<".", "p", "n", "g">>
                      ELSE <<"_", "S", "e", "g", ".", "j", "p", "g">>
        IN  /\ out.dir = "OutputDir"
            /\ out.name \in DOMAIN OutputDir
            /\ Len(out.name) > Len(suffix)
            /\ EndsWith(out.name, suffix)
            /\ IsNameWithoutLastExt(SubSeq(out.name, 1, Len(out.name) - Len(suffix)), name)

\* Adjust finished after writing a.png for the input a.bmp
C5_Witness ==
    /\ prog = "Adjust" /\ pc = "done"
    /\ \E i \in 1..Len(writes) :
         /\ writes[i].src.name = <<"a", ".", "b", "m", "p">>
         /\ writes[i].path.name = <<"a", ".", "p", "n", "g">>

\* Adjust is about to write the output of a test image whose samples are
\* all equal, under threshold 0 and with reference files to average
UniformCase ==
    /\ prog = "Adjust" /\ pc = "WriteImg"
    /\ TrainMatches # {} /\ Threshold = 0 /\ IsUniform(TestImgData)

\* the reference files hold uniform images of the values 100 and 200 and
\* the test image is uniform 50
ScenarioA ==
    /\ {TrainImgDir[n] : n \in TrainMatches} = {Uniform(2, 2, 100), Uniform(2, 2, 200)}
    /\ TestImgData = Uniform(2, 2, 50)

\* the mean of the reference images' means, in units of 1/Scale (every
\* reference image of the model is uniform, so its mean is its first sample)
TargetMean ==
    LET list == Listing(TrainMatches)
    IN  (SumSeq([i \in 1..Len(list) |-> TrainImgDir[list[i]].px[1]]) * Scale)
            \div Len(list)

\* C6 as stated: a uniform test image under threshold 0 comes out with every
\* sample equal to the target mean.
C6_UniformGivesTargetMean ==
    UniformCase =>
        /\ Result.ok /\ Len(Result.px) = Len(TestImgData.px)
        /\ \A i \in 1..Len(Result.px) : Result.px[i] * Scale = TargetMean

\* C6 amended: every sample equals the target mean truncated to an integer,
\* whatever the test image's value; references 100 and 200 with a test image
\* of 50 give 150 everywhere.
C6_UniformGivesTruncatedTargetMean ==
    UniformCase =>
        /\ Result.ok /\ Len(Result.px) = Len(TestImgData.px)
        /\ TrainMean = Fl(TargetMean)
        /\ \A i \in 1..Len(Result.px) : Result.px[i] = TargetMean \div Scale
        /\ ScenarioA => \A i \in 1..Len(Result.px) : Result.px[i] = 150

\* scenario A reached the write with an output of 150 everywhere
C6_Witness ==
    /\ UniformCase /\ ScenarioA
    /\ Result = Uniform(2, 2, 150)

\* C7: in Adjust and in RunInf no step of the file at position i+1 starts
\* before the output of the file at position i has been written.
C7_OneFileAtATime ==
    \A e \in 1..Len(events) :
        events[e].pos > 1 =>
            \E w \in 1..(e - 1) :
                events[w].op = "WriteImg" /\ events[w].pos = events[e].pos - 1

\* a per-file step of Adjust raised
AdjustAborted == prog = "Adjust" /\ pc = "error" /\ events # <<>>

C9_DestinationsDistinct ==
    /\ \A i, j \in 1..Len(writes) :
         writes[i].src # writes[j].src => writes[i].path # writes[j].path
    /\ (prog \in {"Adjust", "RunInf"} /\ pc = "done") =>
         Cardinality(DOMAIN OutputDir) =
             Cardinality(Glob(TestImgDir, ImageExtension))

\* the tensor Model.predict returned for the file at path
PredictedFor(path) ==
    {predicted[k][2] : k \in {m \in 1..Len(predicted) : predicted[m][1] = path}}

\* C10: RunInf runs inference and writes in lexicographic order of the
\* matching file names, and each written mask is the decoding of the tensor
\* predicted for the same file, at that file's own height and width.
C10_OrderAndPairing ==
    (prog = "RunInf" /\ pc # "glob") =>
        /\ Range(TestImgPathList) =
               {Path("TestImgDir", n) : n \in Glob(TestImgDir, ImageExtension)}
        /\ \A i, j \in 1..Len(TestImgPathList) :
             i < j => StrLess(TestImgPathList[i].name, TestImgPathList[j].name)
        /\ Len(predicted) <= Len(TestImgPathList)
        /\ \A i \in 1..Len(predicted) : predicted[i][1] = TestImgPathList[i]
        /\ Len(writes) <= Len(predicted)
        /\ \A i \in 1..Len(writes) :
             LET file == TestImgDir[writes[i].src.name]
             IN  /\ writes[i].src = TestImgPathList[i]
                 /\ writes[i].img.h = file.h /\ writes[i].img.w = file.w
                 /\ PredictedFor(writes[i].src) # {}
                 /\ \A t \in PredictedFor(writes[i].src) :
                      writes[i].img =
                          Resize(ConvertYtoSegImg(t, ImgSize), file.w, file.h)

\* RunInf finished two files of different shapes whose predictions differ
C10_Witness ==
    /\ prog = "RunInf" /\ pc = "done" /\ Len(writes) = 2
    /\ predicted[1][2] # predicted[2][2]
    /\ writes[1].img.h # writes[2].img.h
    /\ writes[1].img.px # writes[2].img.px

====
